---- MODULE Spec2Model ----
(***************************************************************************)
(* A model of sonar's mapping engine (src/sonar/map.py): the memoized      *)
(* classifier map_process, the aggregation loop of extract_and_map_data    *)
(* and the ranked summary printed by output / _output_section.             *)
(*                                                                         *)
(* Conventions.                                                            *)
(*  - A numeric field of an input line is a sequence of one-character      *)
(*    strings; a process name is a string, spelled out by Spelling where   *)
(*    a pattern is matched against it.                                     *)
(*  - A Python dict whose iteration order the code observes is a sequence  *)
(*    of <<key, value>> pairs in insertion order.                          *)
(*  - cpu loads are kept in hundredths of a core: the code's               *)
(*    0.01 * cpu_percentage is the integer cpu_percentage in that unit     *)
(*    (floating-point rounding is not modelled).                           *)
(***************************************************************************)
EXTENDS Integers, Sequences, FiniteSets, TLC

VARIABLES
    cache,              \* memoize_on_first_arg: the closure's dict
    string_map,         \* arguments of the current run / latest call
    re_map,
    default_category,
    num_days,
    last_call,          \* the latest call of map_process and what it returned
    app_cpu_load,       \* the accumulators of extract_and_map_data
    app_cpu_res,
    app_num_cores_requested,
    app_mem_requested,
    unmapped_cpu_load,
    unmapped_cpu_res,
    unmapped_num_cores_requested,
    unmapped_mem_requested,
    daily_cpu_load,
    dates,
    pc,                 \* "extract", "done", or the exception that ended the run
    printed,            \* the rows output has printed
    n_lines,            \* number of input lines read so far
    audit,              \* history: what the input lines read so far held
    offered,            \* history: the request values the lines supplied, per key
    export_csv,         \* config["export_csv"] of the run
    rule_files,         \* the two rule files on disk, as the run finds them
    stderr,             \* the diagnostics the current call of main has written
    csv,                \* what _csv_report has written
    input,              \* the lines of the input files, where a run reads given files
    raw_text,           \* snap / ps: the text handed to extract_processes
    ignored_users,
    processes           \* snap / ps: what extract_processes returned

classifier_vars == <<cache, string_map, re_map, default_category, last_call>>

run_vars ==
    <<num_days, app_cpu_load, app_cpu_res, app_num_cores_requested,
      app_mem_requested, unmapped_cpu_load, unmapped_cpu_res,
      unmapped_num_cores_requested, unmapped_mem_requested, daily_cpu_load,
      dates, pc, printed, n_lines, audit, offered>>

main_vars == <<export_csv, rule_files, stderr, csv, input>>

snap_vars == <<raw_text, ignored_users, processes>>

vars == <<classifier_vars, run_vars, main_vars, snap_vars>>

----------------------------------------------------------------------------
(* Bounds of the model *)

MaxRecords == 2

----------------------------------------------------------------------------
(* Python values *)

\* an optional number: None, or a number
None == [is_none |-> TRUE, value |-> 0]
Some(v) == [is_none |-> FALSE, value |-> v]

\* the outcome of a conversion: the number, or the exception raised
Ok(v) == [error |-> "", value |-> v]
Raise(e) == [error |-> e, value |-> 0]

\* sys.maxsize is 2^63 - 1; the code only compares against it, and TLC's
\* integers are 32 bits wide, so the largest of those stands for it.
sys_maxsize == 2147483647

Min(a, b) == IF a <= b THEN a ELSE b
Max(a, b) == IF a >= b THEN a ELSE b

\* dict: a sequence of <<key, value>> pairs, keys distinct, insertion order
DictKeys(d) == [i \in 1..Len(d) |-> d[i][1]]
DictHas(d, k) == \E i \in 1..Len(d) : d[i][1] = k
DictGet(d, k) == d[CHOOSE i \in 1..Len(d) : d[i][1] = k][2]
\* defaultdict.__getitem__ as used on the right of an update
DictGetDefault(d, k, dflt) == IF DictHas(d, k) THEN DictGet(d, k) ELSE dflt
\* d[k] = v
DictPut(d, k, v) ==
    IF DictHas(d, k)
    THEN [i \in 1..Len(d) |-> IF d[i][1] = k THEN <<k, v>> ELSE d[i]]
    ELSE Append(d, <<k, v>>)

RECURSIVE SumSeq(_)
SumSeq(s) == IF s = <<>> THEN 0 ELSE Head(s) + SumSeq(Tail(s))

\* sum(d.values())
DictSum(d) == SumSeq([i \in 1..Len(d) |-> d[i][2]])

\* sum(f.values()) for a dict kept as a function
RECURSIVE SumOver(_, _)
SumOver(f, S) ==
    IF S = {} THEN 0
    ELSE LET x == CHOOSE x \in S : TRUE IN f[x] + SumOver(f, S \ {x})

----------------------------------------------------------------------------
(* Regular expressions: the fragment the rule files of the model use.  A  *)
(* pattern is a sequence of character classes, optionally anchored with ^  *)
(* and $.                                                                  *)

fox == "fox"
ox == "ox"
sh == "sh"

ProcessNames == {fox, ox, sh}

\* the characters of a process name
Spelling ==
    [p \in ProcessNames |->
        CASE p = fox -> <<"f", "o", "x">>
          [] p = ox -> <<"o", "x">>
          [] p = sh -> <<"s", "h">>]

\* re.search(k, process) is not None
re_search(k, process) ==
    LET s == Spelling[process]
    IN  \E i \in 1..(Len(s) + 1) :
            /\ i + Len(k.body) - 1 <= Len(s)
            /\ k.anchor_start => i = 1
            /\ k.anchor_end => i + Len(k.body) - 1 = Len(s)
            /\ \A j \in 1..Len(k.body) : s[i + j - 1] \in k.body[j]

----------------------------------------------------------------------------
(* map_process and its memoization *)

\* the for loop of map_process, from index i on
RECURSIVE scan_re_map(_, _, _, _)
scan_re_map(process, rules, dflt, i) ==
    IF i > Len(rules) THEN dflt
    ELSE IF re_search(rules[i][1], process) THEN rules[i][2]
    ELSE scan_re_map(process, rules, dflt, i + 1)

\* a map_process that lets the pattern rules shadow the exact table
map_process_patterns_first(process, smap, rules, dflt) ==
    IF \E i \in 1..Len(rules) : re_search(rules[i][1], process)
    THEN scan_re_map(process, rules, dflt, 1)
    ELSE IF process \in DOMAIN smap THEN smap[process] ELSE dflt

\* a map_process whose loop does not stop at the first match
map_process_last_match(process, smap, rules, dflt) ==
    IF process \in DOMAIN smap THEN smap[process]
    ELSE LET hits == {i \in 1..Len(rules) : re_search(rules[i][1], process)}
         IN  IF hits = {} THEN dflt
             ELSE rules[CHOOSE i \in hits : \A j \in hits : j <= i][2]

\* the undecorated map_process
map_process(process, smap, rules, dflt) ==
    IF process \in DOMAIN smap THEN smap[process]
    ELSE scan_re_map(process, rules, dflt, 1)

\* a memoized_func that never looks into the cache
memoized_func_recompute(c, process, smap, rules, dflt) ==
    LET result == map_process(process, smap, rules, dflt)
    IN  [result |-> result, hit |-> FALSE,
         cache |-> [q \in DOMAIN c \cup {process} |->
                        IF q = process THEN result ELSE c[q]]]

\* memoized_func: the returned label, whether the cache answered, the cache after
memoized_func(c, process, smap, rules, dflt) ==
    IF process \in DOMAIN c
    THEN [result |-> c[process], hit |-> TRUE, cache |-> c]
    ELSE LET result == map_process(process, smap, rules, dflt)
         IN  [result |-> result, hit |-> FALSE,
              cache |-> [q \in DOMAIN c \cup {process} |->
                             IF q = process THEN result ELSE c[q]]]

----------------------------------------------------------------------------
(* Inputs of the classifier *)

\* "^fox$", "ox", "[fos]x", "h$"
re_fox == [anchor_start |-> TRUE, anchor_end |-> TRUE, body |-> <<{"f"}, {"o"}, {"x"}>>]
re_ox == [anchor_start |-> FALSE, anchor_end |-> FALSE, body |-> <<{"o"}, {"x"}>>]
re_class_x == [anchor_start |-> FALSE, anchor_end |-> FALSE, body |-> <<{"f", "o", "s"}, {"x"}>>]
re_h_end == [anchor_start |-> FALSE, anchor_end |-> TRUE, body |-> <<{"h"}>>]

EmptyMap == [q \in {} |-> ""]

\* rule files: an exact table and an ordered pattern list each
RulesNone == [string_map |-> EmptyMap, re_map |-> <<>>]

RulesExact ==
    [string_map |-> [q \in {fox} |-> "Firefox"],
     re_map |-> << <<re_ox, "Browser">> >>]

RulesDuplicate ==
    [string_map |-> EmptyMap,
     re_map |-> << <<re_fox, "Firefox">>, <<re_class_x, "Browser">>,
                   <<re_fox, "NOTFirefox">> >>]

RulesOverlap ==
    [string_map |-> EmptyMap,
     re_map |-> << <<re_ox, "Browser">>, <<re_fox, "Firefox">>,
                   <<re_h_end, "Shell">> >>]

RulesBoth ==
    [string_map |-> [q \in {fox, sh} |-> IF q = fox THEN "Browser" ELSE "Shell"],
     re_map |-> << <<re_fox, "Firefox">> >>]

RuleSets == {RulesNone, RulesExact, RulesDuplicate, RulesOverlap, RulesBoth}

DefaultCategories == {"UNKNOWN", "other"}

NoCall == [process |-> "", label |-> "", hit |-> FALSE]

----------------------------------------------------------------------------
(* Parsing the fields of an input line *)

DigitValue ==
    [c \in {"0", "1", "2", "3", "4", "5", "6", "7", "8", "9"} |->
        CASE c = "0" -> 0 [] c = "1" -> 1 [] c = "2" -> 2 [] c = "3" -> 3
          [] c = "4" -> 4 [] c = "5" -> 5 [] c = "6" -> 6 [] c = "7" -> 7
          [] c = "8" -> 8 [] c = "9" -> 9]

RECURSIVE digits_value(_, _)
digits_value(s, acc) ==
    IF s = <<>> THEN acc
    ELSE digits_value(Tail(s), 10 * acc + DigitValue[Head(s)])

\* int(s) on a field of decimal digits; anything else raises ValueError
int(s) ==
    IF s # <<>> /\ \A i \in 1..Len(s) : s[i] \in DOMAIN DigitValue
    THEN Ok(digits_value(s, 0))
    ELSE Raise("ValueError")

\* float(s) on a field holding a whole percentage
float(s) == int(s)

\* s[:-1]
but_last(s) == SubSeq(s, 1, Len(s) - 1)

_cast_to_mb(s) ==
    IF s # <<>> /\ s[Len(s)] = "M" THEN int(but_last(s))
    ELSE IF s # <<>> /\ s[Len(s)] = "G"
         THEN LET n == int(but_last(s))
              IN  IF n.error # "" THEN n ELSE Ok(1000 * n.value)
    ELSE Raise("SystemExit")

\* an _adjust_min_max that keeps the value seen last
_adjust_min_max_last(t, value) ==
    IF ~value.is_none THEN <<value.value, value.value>> ELSE t

_adjust_min_max(t, value) ==
    IF ~value.is_none
    THEN <<Min(t[1], value.value), Max(t[2], value.value)>>
    ELSE t

\* time_stamp.split('T')[0]
normalize_time_stamp(time_stamp) == time_stamp.date

----------------------------------------------------------------------------
(* Calendar dates: <<year, month, day>>, and datetime.date's day ordinal *)

is_leap(y) == y % 4 = 0 /\ (y % 100 # 0 \/ y % 400 = 0)

days_before_year(y) ==
    (y - 1) * 365 + ((y - 1) \div 4) - ((y - 1) \div 100) + ((y - 1) \div 400)

DaysBeforeMonth == <<0, 31, 59, 90, 120, 151, 181, 212, 243, 273, 304, 334>>

days_before_month(y, m) ==
    DaysBeforeMonth[m] + (IF m > 2 /\ is_leap(y) THEN 1 ELSE 0)

toordinal(date) ==
    days_before_year(date[1]) + days_before_month(date[1], date[2]) + date[3]

difference_days(date1, date2) == toordinal(date2) - toordinal(date1)

\* a day window that also drops the line exactly num_days old
outside_window_inclusive(time_stamp, today, n) ==
    difference_days(time_stamp, today) >= n

\* no day window at all: every line is accumulated
outside_window_never(time_stamp, today, n) == FALSE

\* the test before `continue`
outside_window(time_stamp, today, n) ==
    difference_days(time_stamp, today) > n

----------------------------------------------------------------------------
(* Input lines of the snapshot files *)

\* datetime.datetime.today(), as a date
Today == <<2020, 1, 1>>

Dates == {<<2020, 1, 1>>, <<2019, 12, 31>>}

NumDaysChoices == {0, 1}

Users == {"alice", "bob"}

LineProcesses == {fox, sh}

\* columns 7, 9 and 10: no job, or a job with its requests
NoJob == [project |-> "-", req_cores |-> <<"-">>, req_mem |-> <<"-">>]
SmallJob == [project |-> "nn1", req_cores |-> <<"1">>, req_mem |-> <<"1", "G">>]
LargeJob == [project |-> "nn1", req_cores |-> <<"4">>, req_mem |-> <<"5", "0", "0", "M">>]

\* column 5 with columns 7, 9 and 10: an idle and a busy process outside a
\* job, an idle one in the small job, a busy one in the large job
CpuAndJobFields ==
    { <<<<"0">>, NoJob>>, <<<<"5", "0">>, NoJob>>,
      <<<<"0">>, SmallJob>>, <<<<"5", "0">>, LargeJob>> }

Line(date, cores, user, process, cpu, job) ==
    [time_stamp |-> [date |-> date, clock |-> "T20:50:14.659307+0200"],
     cores |-> cores, user |-> user, process |-> process, cpu |-> cpu,
     project |-> job.project, req_cores |-> job.req_cores, req_mem |-> job.req_mem]

WellFormedLines ==
    {Line(d, <<"2">>, u, p, cj[1], cj[2]) :
        d \in Dates, u \in Users, p \in LineProcesses, cj \in CpuAndJobFields}

\* lines with one field that is no number, on either date
MalformedLines ==
    UNION {
        { Line(d, <<"x">>, "alice", fox, <<"5", "0">>, NoJob),
          Line(d, <<"2">>, "alice", fox, <<"x">>, NoJob),
          Line(d, <<"2">>, "alice", fox, <<"5", "0">>,
               [project |-> "nn1", req_cores |-> <<"x">>, req_mem |-> <<"1", "G">>]),
          Line(d, <<"2">>, "alice", fox, <<"5", "0">>,
               [project |-> "nn1", req_cores |-> <<"1">>, req_mem |-> <<"5", "K">>]),
          Line(d, <<"2">>, "alice", fox, <<"5", "0">>,
               [project |-> "-", req_cores |-> <<"x">>, req_mem |-> <<"x">>]) }
        : d \in Dates }

Lines == WellFormedLines \cup MalformedLines

\* the rule files a run is started with
RunRuleSets == {RulesNone, RulesExact, RulesOverlap}

----------------------------------------------------------------------------
(* History of the input, kept beside the program's state to state the     *)
(* claims: it is computed from the lines alone.                            *)

\* the dates of the lines of the model, and how many days before Today
\* each one is
AllDates == Dates \cup {<<2019, 12, 30>>, <<2019, 1, 2>>}

Age ==
    [d \in AllDates |->
        CASE d = <<2020, 1, 1>> -> 0
          [] d = <<2019, 12, 31>> -> 1
          [] d = <<2019, 12, 30>> -> 2
          [] d = <<2019, 1, 2>> -> 364]

IsNumeral(s) ==
    s # <<>> /\ \A i \in 1..Len(s) : s[i] \in {"0", "1", "2", "3", "4", "5", "6", "7", "8", "9"}

\* a numeric field the claim names does not parse
MalformedNumeric(line) ==
    \/ ~IsNumeral(line.cores)
    \/ ~IsNumeral(line.cpu)
    \/ line.project # "-" /\ ~IsNumeral(line.req_cores)

InWindow(line, n) == Age[line.time_stamp.date] <= n

NoAudit ==
    [all_load |-> 0, all_cores |-> 0, win_load |-> 0, win_cores |-> 0,
     win_dates |-> {}, bad_any |-> FALSE, bad_win |-> FALSE]

Audited(a, line, n) ==
    IF MalformedNumeric(line)
    THEN [a EXCEPT !.bad_any = TRUE, !.bad_win = @ \/ InWindow(line, n)]
    ELSE [a EXCEPT
            !.all_load = @ + int(line.cpu).value,
            !.all_cores = @ + int(line.cores).value,
            !.win_load = @ + (IF InWindow(line, n) THEN int(line.cpu).value ELSE 0),
            !.win_cores = @ + (IF InWindow(line, n) THEN int(line.cores).value ELSE 0),
            !.win_dates = @ \cup (IF InWindow(line, n) THEN {line.time_stamp.date} ELSE {})]

----------------------------------------------------------------------------
(* extract_and_map_data *)

\* the default of the request ranges: (sys.maxsize, -sys.maxsize)
Sentinel == <<sys_maxsize, -sys_maxsize>>

\* conversions that take a field that is no number for 0 and go on
parse_line_lenient(line) ==
    [error |-> "",
     num_cores_on_node |-> int(line.cores).value,
     cpu_percentage |-> float(line.cpu).value,
     num_cores_requested |->
        IF line.project = "-" THEN None ELSE Some(int(line.req_cores).value),
     mem_requested |->
        IF line.project = "-" THEN None ELSE Some(_cast_to_mb(line.req_mem).value)]

\* the conversions of the loop body, in the order the code makes them: the
\* fields, or the exception the first bad field raises
parse_line(line) ==
    LET num_cores_on_node == int(line.cores)
        cpu_percentage == float(line.cpu)
        num_cores_requested == int(line.req_cores)
        mem_requested == _cast_to_mb(line.req_mem)
        fields == [error |-> "",
                   num_cores_on_node |-> num_cores_on_node.value,
                   cpu_percentage |-> cpu_percentage.value,
                   num_cores_requested |-> None,
                   mem_requested |-> None]
    IN  IF num_cores_on_node.error # "" THEN [fields EXCEPT !.error = num_cores_on_node.error]
        ELSE IF cpu_percentage.error # "" THEN [fields EXCEPT !.error = cpu_percentage.error]
        ELSE IF line.project = "-" THEN fields
        ELSE IF num_cores_requested.error # "" THEN [fields EXCEPT !.error = num_cores_requested.error]
        ELSE IF mem_requested.error # "" THEN [fields EXCEPT !.error = mem_requested.error]
        ELSE [fields EXCEPT !.num_cores_requested = Some(num_cores_requested.value),
                            !.mem_requested = Some(mem_requested.value)]

\* daily_cpu_load[time_stamp][app] += cpu_load
daily_add(daily, time_stamp, app, cpu_load) ==
    LET day == IF time_stamp \in DOMAIN daily THEN daily[time_stamp] ELSE EmptyMap
        old == IF app \in DOMAIN day THEN day[app] ELSE 0
        new_day == [a \in DOMAIN day \cup {app} |-> IF a = app THEN old + cpu_load ELSE day[a]]
    IN  [d \in DOMAIN daily \cup {time_stamp} |-> IF d = time_stamp THEN new_day ELSE daily[d]]

\* routing that decides the namespace by nothing but the label's key
is_unmapped_never(app, dflt) == FALSE

\* routing with the two branches exchanged
is_unmapped_inverted(app, dflt) == app # dflt

\* app == default_category
is_unmapped(app, dflt) == app = dflt

\* the body of the loop over the lines of the input files, for one line
loop_body(line) ==
    /\ pc = "extract"
    /\ n_lines' = n_lines + 1
    /\ audit' = Audited(audit, line, num_days)
    /\ UNCHANGED <<string_map, re_map, default_category, num_days, printed>>
    /\ UNCHANGED <<main_vars, snap_vars>>
    /\ LET time_stamp == normalize_time_stamp(line.time_stamp)
           f == parse_line(line)
           m == memoized_func(cache, line.process, string_map, re_map, default_category)
           app == m.result
           cpu_load == f.cpu_percentage
           unmapped == is_unmapped(app, default_category)
           key == IF unmapped THEN <<line.process, line.user>> ELSE <<app, line.user>>
       IN  IF outside_window(time_stamp, Today, num_days)
           THEN \* continue
                UNCHANGED <<cache, last_call, app_cpu_load, app_cpu_res,
                            app_num_cores_requested, app_mem_requested,
                            unmapped_cpu_load, unmapped_cpu_res,
                            unmapped_num_cores_requested, unmapped_mem_requested,
                            daily_cpu_load, dates, pc, offered>>
           ELSE IF f.error # ""
           THEN \* int, float or _cast_to_mb ends the run
                /\ pc' = f.error
                /\ dates' = dates \cup {time_stamp}
                /\ UNCHANGED <<cache, last_call, app_cpu_load, app_cpu_res,
                               app_num_cores_requested, app_mem_requested,
                               unmapped_cpu_load, unmapped_cpu_res,
                               unmapped_num_cores_requested, unmapped_mem_requested,
                               daily_cpu_load, offered>>
           ELSE /\ dates' = dates \cup {time_stamp}
                /\ cache' = m.cache
                /\ last_call' = [process |-> line.process, label |-> app, hit |-> m.hit]
                /\ pc' = pc
                /\ offered' = offered
                     \cup (IF f.num_cores_requested.is_none THEN {}
                           ELSE {<<unmapped, key, "cores", f.num_cores_requested.value>>})
                     \cup (IF f.mem_requested.is_none THEN {}
                           ELSE {<<unmapped, key, "mem", f.mem_requested.value>>})
                /\ IF unmapped
                   THEN /\ unmapped_cpu_load' =
                              DictPut(unmapped_cpu_load, key,
                                      DictGetDefault(unmapped_cpu_load, key, 0) + cpu_load)
                        /\ unmapped_cpu_res' =
                              DictPut(unmapped_cpu_res, key,
                                      DictGetDefault(unmapped_cpu_res, key, 0) + f.num_cores_on_node)
                        /\ unmapped_num_cores_requested' =
                              DictPut(unmapped_num_cores_requested, key,
                                      _adjust_min_max(DictGetDefault(unmapped_num_cores_requested, key, Sentinel),
                                                      f.num_cores_requested))
                        /\ unmapped_mem_requested' =
                              DictPut(unmapped_mem_requested, key,
                                      _adjust_min_max(DictGetDefault(unmapped_mem_requested, key, Sentinel),
                                                      f.mem_requested))
                        /\ UNCHANGED <<app_cpu_load, app_cpu_res,
                                       app_num_cores_requested, app_mem_requested>>
                   ELSE /\ app_cpu_load' =
                              DictPut(app_cpu_load, key,
                                      DictGetDefault(app_cpu_load, key, 0) + cpu_load)
                        /\ app_cpu_res' =
                              DictPut(app_cpu_res, key,
                                      DictGetDefault(app_cpu_res, key, 0) + f.num_cores_on_node)
                        /\ app_num_cores_requested' =
                              DictPut(app_num_cores_requested, key,
                                      _adjust_min_max(DictGetDefault(app_num_cores_requested, key, Sentinel),
                                                      f.num_cores_requested))
                        /\ app_mem_requested' =
                              DictPut(app_mem_requested, key,
                                      _adjust_min_max(DictGetDefault(app_mem_requested, key, Sentinel),
                                                      f.mem_requested))
                        /\ UNCHANGED <<unmapped_cpu_load, unmapped_cpu_res,
                                       unmapped_num_cores_requested, unmapped_mem_requested>>
                /\ daily_cpu_load' = daily_add(daily_cpu_load, time_stamp, app, cpu_load)

\* one iteration of the loop, on any line an input file may hold next
ReadLine(line) ==
    /\ n_lines < MaxRecords
    /\ loop_body(line)

----------------------------------------------------------------------------
(* output and _output_section *)

\* the per-application totals _res and _load: a dict in order of first appearance
RECURSIVE collapse(_, _)
collapse(d, acc) ==
    IF d = <<>> THEN acc
    ELSE LET k == Head(d)[1][1]
         IN  collapse(Tail(d), DictPut(acc, k, DictGetDefault(acc, k, 0) + Head(d)[2]))

\* sorted(d, key=lambda x: d[x], reverse=True): stable, so equal values keep
\* the order of the dict
RECURSIVE sorted_desc(_, _)
sorted_desc(d, acc) ==
    IF d = <<>> THEN [i \in 1..Len(acc) |-> acc[i][1]]
    ELSE LET x == Head(d)
             before == {i \in 1..Len(acc) : acc[i][2] < x[2]}
             at == IF before = {} THEN Len(acc) + 1
                   ELSE CHOOSE i \in before : \A j \in before : i <= j
         IN  sorted_desc(Tail(d),
                         SubSeq(acc, 1, at - 1) \o <<x>> \o SubSeq(acc, at, Len(acc)))

\* a take_max that keeps the whole collection
take_max_all(how_many, collection) == collection

\* take_max(how_many, collection), for a collection that is not empty
take_max(how_many, collection) == SubSeq(collection, 1, Min(how_many, Len(collection)))

\* a cutoff test that also lets a share equal to the cutoff through
exceeds_cutoff_inclusive(part, total, percentage_cutoff) ==
    100 * part >= percentage_cutoff * total

\* 100.0 * part / total > percentage_cutoff, for total > 0
exceeds_cutoff(part, total, percentage_cutoff) ==
    100 * part > percentage_cutoff * total

\* users = {u: cpu_res[(k, u)] for k, u in cpu_res.keys() if k == key}
users_of(cpu_res, key) ==
    LET own == SelectSeq(cpu_res, LAMBDA e : e[1][1] = key)
    IN  [i \in 1..Len(own) |-> <<own[i][1][2], own[i][2]>>]

\* the line 'percentage cutoff: ...' of the heading
CutoffRow(percentage_cutoff) == [kind |-> "cutoff", cutoff |-> percentage_cutoff]

AppRow(section, key, load, res) ==
    [kind |-> "app", section |-> section, key |-> key, user |-> "",
     load |-> load, res |-> res, cores |-> <<0, 0>>, mem |-> <<0, 0>>]

UserRow(section, key, user, load, res, cores, mem) ==
    [kind |-> "user", section |-> section, key |-> key, user |-> user,
     load |-> load, res |-> res, cores |-> cores, mem |-> mem]

UnmappedRow(load, res) ==
    [kind |-> "total", section |-> "unmapped", key |-> "unmapped", user |-> "",
     load |-> load, res |-> res, cores |-> <<0, 0>>, mem |-> <<0, 0>>]

\* the loop of _output_section over the sorted keys, from index i on: the rows
\* printed, and the exception that ended it, if any
RECURSIVE section_loop(_, _, _, _, _, _, _, _, _, _, _, _)
section_loop(section, keys, i, _res, _load, cpu_load, cpu_load_sum, cpu_res, cpu_res_sum, num_cores_requested, mem_requested, percentage_cutoff) ==
    IF i > Len(keys) THEN [rows |-> <<>>, error |-> ""]
    ELSE IF cpu_load_sum = 0 \/ cpu_res_sum = 0
    THEN [rows |-> <<>>, error |-> "ZeroDivisionError"]
    ELSE LET key == keys[i]
             users_sorted == sorted_desc(users_of(cpu_res, key), <<>>)
             top == take_max(2, users_sorted)
             mine == IF exceeds_cutoff(DictGet(_res, key), cpu_res_sum, percentage_cutoff)
                     THEN <<AppRow(section, key, DictGetDefault(_load, key, 0), DictGet(_res, key))>>
                          \o [u \in 1..Len(top) |->
                                UserRow(section, key, top[u],
                                        DictGetDefault(cpu_load, <<key, top[u]>>, 0),
                                        DictGet(cpu_res, <<key, top[u]>>),
                                        DictGetDefault(num_cores_requested, <<key, top[u]>>, Sentinel),
                                        DictGetDefault(mem_requested, <<key, top[u]>>, Sentinel))]
                     ELSE <<>>
             rest == section_loop(section, keys, i + 1, _res, _load, cpu_load,
                                  cpu_load_sum, cpu_res, cpu_res_sum,
                                  num_cores_requested, mem_requested, percentage_cutoff)
         IN  [rows |-> mine \o rest.rows, error |-> rest.error]

_output_section(section, cpu_load, cpu_load_sum, cpu_res, cpu_res_sum, num_cores_requested, mem_requested, percentage_cutoff) ==
    LET _res == collapse(cpu_res, <<>>)
        _load == collapse(cpu_load, <<>>)
    IN  section_loop(section, sorted_desc(_res, <<>>), 1, _res, _load, cpu_load,
                     cpu_load_sum, cpu_res, cpu_res_sum, num_cores_requested,
                     mem_requested, percentage_cutoff)

\* output(data, default_category, percentage_cutoff): the rows printed and
\* the exception that ended it, if any
output(data, percentage_cutoff) ==
    LET app_cpu_load_sum == DictSum(data.app_cpu_load)
        unmapped_cpu_load_sum == DictSum(data.unmapped_cpu_load)
        cpu_load_sum == app_cpu_load_sum + unmapped_cpu_load_sum
        app_cpu_res_sum == DictSum(data.app_cpu_res)
        unmapped_cpu_res_sum == DictSum(data.unmapped_cpu_res)
        cpu_res_sum == app_cpu_res_sum + unmapped_cpu_res_sum
        mapped == _output_section("app", data.app_cpu_load, cpu_load_sum,
                                  data.app_cpu_res, cpu_res_sum,
                                  data.app_num_cores_requested,
                                  data.app_mem_requested, percentage_cutoff)
        unmapped == _output_section("unmapped", data.unmapped_cpu_load, cpu_load_sum,
                                    data.unmapped_cpu_res, cpu_res_sum,
                                    data.unmapped_num_cores_requested,
                                    data.unmapped_mem_requested, percentage_cutoff)
        heading == <<CutoffRow(percentage_cutoff)>>
    IN  IF mapped.error # ""
        THEN [rows |-> heading \o mapped.rows, error |-> mapped.error]
        ELSE IF cpu_load_sum = 0 \/ cpu_res_sum = 0
        THEN [rows |-> heading \o mapped.rows, error |-> "ZeroDivisionError"]
        ELSE [rows |-> heading \o mapped.rows
                        \o <<UnmappedRow(unmapped_cpu_load_sum, unmapped_cpu_res_sum)>>
                        \o unmapped.rows,
              error |-> unmapped.error]

\* the dict extract_and_map_data returns
Data ==
    [app_cpu_load |-> app_cpu_load, app_cpu_res |-> app_cpu_res,
     app_num_cores_requested |-> app_num_cores_requested,
     app_mem_requested |-> app_mem_requested,
     unmapped_cpu_load |-> unmapped_cpu_load, unmapped_cpu_res |-> unmapped_cpu_res,
     unmapped_num_cores_requested |-> unmapped_num_cores_requested,
     unmapped_mem_requested |-> unmapped_mem_requested,
     dates |-> dates, daily_cpu_load |-> daily_cpu_load]

Cutoffs == {0, 50}

\* the (key, user) pairs of the user rows printed for a section
user_keys(rows, section) ==
    LET own == SelectSeq(rows, LAMBDA r : r.kind = "user" /\ r.section = section)
    IN  [i \in 1..Len(own) |-> <<own[i].key, own[i].user>>]

\* a defaultdict after d[k] has been read for each k of keys: a key that was
\* missing has been inserted with the default
RECURSIVE read_all(_, _, _)
read_all(d, keys, dflt) ==
    IF keys = <<>> THEN d
    ELSE read_all(IF DictHas(d, Head(keys)) THEN d ELSE Append(d, <<Head(keys), dflt>>),
                  Tail(keys), dflt)

\* the input is exhausted: extract_and_map_data returns and main prints the
\* summary; _output_section reads cpu_load, num_cores_requested and
\* mem_requested under the (key, user) pairs it prints
Output(percentage_cutoff) ==
    /\ pc = "extract"
    /\ export_csv.is_none
    /\ LET o == output(Data, percentage_cutoff)
           mapped == user_keys(o.rows, "app")
           unmapped == user_keys(o.rows, "unmapped")
       IN  /\ printed' = o.rows
           /\ pc' = IF o.error = "" THEN "done" ELSE o.error
           /\ app_cpu_load' = read_all(app_cpu_load, mapped, 0)
           /\ app_num_cores_requested' = read_all(app_num_cores_requested, mapped, Sentinel)
           /\ app_mem_requested' = read_all(app_mem_requested, mapped, Sentinel)
           /\ unmapped_cpu_load' = read_all(unmapped_cpu_load, unmapped, 0)
           /\ unmapped_num_cores_requested' =
                 read_all(unmapped_num_cores_requested, unmapped, Sentinel)
           /\ unmapped_mem_requested' = read_all(unmapped_mem_requested, unmapped, Sentinel)
    /\ UNCHANGED <<classifier_vars, num_days, app_cpu_res, unmapped_cpu_res,
                   daily_cpu_load, dates, n_lines, audit, offered>>
    /\ UNCHANGED <<main_vars, snap_vars>>

----------------------------------------------------------------------------
(* The state outside a run of the aggregation *)

\* a Python str or None
NoneStr == [is_none |-> TRUE, value |-> ""]
Str(v) == [is_none |-> FALSE, value |-> v]

\* a rule file: whether open() finds it, and its rows
NoFile == [status |-> "unset", rows |-> <<>>, opened |-> FALSE]

NoCsv == [columns |-> <<>>, rows |-> <<>>]

\* extract_processes has not been called: no result, of neither module
NoProcesses ==
    [by |-> "", error |-> "", cpu_percentages |-> <<>>, mem_percentages |-> <<>>]

\* nothing of main's configuration, no report and no snapshot in the state
NoMain ==
    /\ export_csv = NoneStr
    /\ rule_files = [str_map_file |-> NoFile, re_map_file |-> NoFile]
    /\ stderr = <<>> /\ csv = NoCsv /\ input = <<>>

NoSnap == raw_text = <<>> /\ ignored_users = <<>> /\ processes = NoProcesses

----------------------------------------------------------------------------
(* compute_sums and _csv_report *)

\* the number of applications that get a column of their own: the [:9]
top_apps == 9

\* sort_dates: ascending by date
RECURSIVE sort_dates(_)
sort_dates(ds) ==
    IF ds = {} THEN <<>>
    ELSE LET first == CHOOSE d \in ds : \A e \in ds : toordinal(d) <= toordinal(e)
         IN  <<first>> \o sort_dates(ds \ {first})

\* datetime's _isoweek1monday: the ordinal of the Monday that starts ISO
\* week 1 of a year
isoweek1monday(year) ==
    LET firstday == toordinal(<<year, 1, 1>>)
        firstweekday == (firstday + 6) % 7
        week1monday == firstday - firstweekday
    IN  IF firstweekday > 3 THEN week1monday + 7 ELSE week1monday

\* date.isocalendar(): <<ISO year, ISO week number, ISO weekday>>
isocalendar(date) ==
    LET year == date[1]
        today == toordinal(date)
        since == today - isoweek1monday(year)
        week == since \div 7
    IN  IF week < 0
        THEN LET before == today - isoweek1monday(year - 1)
             IN  <<year - 1, (before \div 7) + 1, (before % 7) + 1>>
        ELSE IF week >= 52 /\ today >= isoweek1monday(year + 1)
        THEN <<year + 1, 1, (since % 7) + 1>>
        ELSE <<year, week + 1, (since % 7) + 1>>

\* the key of the bucket of a date: the date, f'{year}-{week}' with the year
\* of the date and the ISO week number, or the year and the month; for
\* another granularity no branch binds key
bucket_key(granularity, date) ==
    IF granularity = "daily" THEN Ok(date)
    ELSE IF granularity = "weekly" THEN Ok(<<date[1], isocalendar(date)[2]>>)
    ELSE IF granularity = "monthly" THEN Ok(<<date[1], date[2]>>)
    ELSE Raise("UnboundLocalError")

\* a formatting that rounds every quotient up to the next hundredth
format_2f_up(e, total) ==
    ((10000 * e) \div total) + (IF (10000 * e) % total = 0 THEN 0 ELSE 1)

\* "{:.2f}".format(100.0 * e / total), in hundredths of a percent: the
\* quotient rounded to the nearest hundredth, a tie to the even one
format_2f(e, total) ==
    LET q == (10000 * e) \div total
        r == (10000 * e) % total
    IN  IF 2 * r > total THEN q + 1
        ELSE IF 2 * r = total THEN q + (q % 2)
        ELSE q

\* columns that keep every application, without the [:9]
column_apps_all(ranked, dflt) == Append(ranked, dflt)

\* apps = sorted(...)[:9]; apps.append(default_category)
column_apps(ranked, dflt) ==
    Append(SubSeq(ranked, 1, Min(top_apps, Len(ranked))), dflt)

\* daily_cpu_load[date] after daily_cpu_load[date][app] was read for every
\* app of apps: the defaultdict has inserted the apps it did not hold
day_after_reads(day, apps) ==
    [a \in DOMAIN day \cup {apps[i] : i \in 1..Len(apps)} |->
        IF a \in DOMAIN day THEN day[a] ELSE 0]

\* the first loop of compute_sums, from index i of the dates on; add_date is
\* its body for one date, given daily_cpu_load[date] as the reads of
\* line 318 leave it and the key of the date's bucket
RECURSIVE sum_dates(_, _, _, _, _, _, _)
RECURSIVE add_date(_, _, _, _, _, _, _, _, _)
add_date(granularity, date_list, i, apps, daily, sums, totals, day, key) ==
    IF key.error # ""
    THEN [error |-> key.error, sums |-> sums, totals |-> totals,
          daily |-> [daily EXCEPT ![date_list[i]] = day]]
    ELSE sum_dates(granularity, date_list, i + 1, apps,
            [daily EXCEPT ![date_list[i]] = day],
            DictPut(sums, key.value,
                    IF DictHas(sums, key.value)
                    THEN [n \in 1..Len(apps) |->
                             DictGet(sums, key.value)[n] + day[apps[n]]]
                    ELSE [n \in 1..Len(apps) |-> day[apps[n]]]),
            DictPut(totals, key.value,
                    DictGetDefault(totals, key.value, 0) + SumOver(day, DOMAIN day)))

sum_dates(granularity, date_list, i, apps, daily, sums, totals) ==
    IF i > Len(date_list)
    THEN [error |-> "", sums |-> sums, totals |-> totals, daily |-> daily]
    ELSE add_date(granularity, date_list, i, apps, daily, sums, totals,
                  day_after_reads(daily[date_list[i]], apps),
                  bucket_key(granularity, date_list[i]))

\* the second loop of compute_sums: every sum as a percentage of the total
\* of its bucket
percentages(apps, s) ==
    IF s.error # ""
    THEN [error |-> s.error, apps |-> apps, sums |-> <<>>, daily |-> s.daily]
    ELSE IF \E k \in 1..Len(s.totals) : s.totals[k][2] = 0
    THEN [error |-> "ZeroDivisionError", apps |-> apps, sums |-> <<>>, daily |-> s.daily]
    ELSE [error |-> "", apps |-> apps, daily |-> s.daily,
          sums |-> [k \in 1..Len(s.sums) |->
                      <<s.sums[k][1],
                        [n \in 1..Len(apps) |->
                            format_2f(s.sums[k][2][n], DictGet(s.totals, s.sums[k][1]))]>>]]

\* compute_sums once the columns are chosen
sums_of(granularity, data, apps) ==
    percentages(apps, sum_dates(granularity, sort_dates(data.dates), 1, apps,
                                data.daily_cpu_load, <<>>, <<>>))

\* compute_sums(granularity, data, default_category, percentage_cutoff): the
\* columns and the rows, the exception that ended it, if any, and
\* daily_cpu_load as the reads have left it
compute_sums(granularity, data, dflt) ==
    sums_of(granularity, data,
            column_apps(sorted_desc(collapse(data.app_cpu_load, <<>>), <<>>), dflt))

\* _csv_report writes the columns and one row per bucket, unless
\* compute_sums has raised
_csv_report(r) ==
    /\ daily_cpu_load' = r.daily
    /\ pc' = IF r.error = "" THEN "done" ELSE r.error
    /\ csv' = IF r.error = "" THEN [columns |-> r.apps, rows |-> r.sums] ELSE NoCsv

\* the input is exhausted: extract_and_map_data returns, main calls
\* compute_sums and _csv_report
ExportCsv ==
    /\ pc = "extract"
    /\ ~export_csv.is_none
    /\ _csv_report(compute_sums(export_csv.value, Data, default_category))
    /\ UNCHANGED <<classifier_vars, num_days, app_cpu_load, app_cpu_res,
                   app_num_cores_requested, app_mem_requested, unmapped_cpu_load,
                   unmapped_cpu_res, unmapped_num_cores_requested,
                   unmapped_mem_requested, dates, printed, n_lines, audit, offered>>
    /\ UNCHANGED <<export_csv, rule_files, stderr, input, snap_vars>>

----------------------------------------------------------------------------
(* The specifications *)

NoData ==
    /\ app_cpu_load = <<>> /\ app_cpu_res = <<>>
    /\ app_num_cores_requested = <<>> /\ app_mem_requested = <<>>
    /\ unmapped_cpu_load = <<>> /\ unmapped_cpu_res = <<>>
    /\ unmapped_num_cores_requested = <<>> /\ unmapped_mem_requested = <<>>
    /\ daily_cpu_load = EmptyMap /\ dates = {}
    /\ printed = <<>> /\ n_lines = 0 /\ audit = NoAudit /\ offered = {}

\* one run of main in a fresh interpreter, the rule files read
Init ==
    /\ cache = EmptyMap
    /\ last_call = NoCall
    /\ \E rs \in RunRuleSets : string_map = rs.string_map /\ re_map = rs.re_map
    /\ default_category = "UNKNOWN"
    /\ num_days \in NumDaysChoices
    /\ pc = "extract"
    /\ NoData /\ NoMain /\ NoSnap

Next ==
    \/ \E line \in Lines : ReadLine(line)
    \/ \E percentage_cutoff \in Cutoffs : Output(percentage_cutoff)

Spec == Init /\ [][Next]_vars

\* map_process called directly, with any rule tables at each call
CallMapProcess(process, rs, dflt) ==
    /\ pc = "classify"
    /\ LET m == memoized_func(cache, process, rs.string_map, rs.re_map, dflt)
       IN  /\ cache' = m.cache
           /\ last_call' = [process |-> process, label |-> m.result, hit |-> m.hit]
    /\ string_map' = rs.string_map
    /\ re_map' = rs.re_map
    /\ default_category' = dflt
    /\ UNCHANGED <<run_vars, main_vars, snap_vars>>

InitClassify ==
    /\ cache = EmptyMap
    /\ last_call = NoCall
    /\ string_map = EmptyMap /\ re_map = <<>>
    /\ default_category = "UNKNOWN"
    /\ num_days = 0
    /\ pc = "classify"
    /\ NoData /\ NoMain /\ NoSnap

NextClassify ==
    \E process \in ProcessNames, rs \in RuleSets, dflt \in DefaultCategories :
        CallMapProcess(process, rs, dflt)

SpecClassify == InitClassify /\ [][NextClassify]_vars

----------------------------------------------------------------------------
(* main: the check of the granularity, read_mapping, and the start of       *)
(* extract_and_map_data                                                     *)

\* dict(rows): the value of the last row of each key
dict(rows) ==
    [k \in {rows[i][1] : i \in 1..Len(rows)} |->
        rows[CHOOSE i \in 1..Len(rows) :
                /\ rows[i][1] = k
                /\ \A j \in 1..Len(rows) : rows[j][1] = k => j <= i][2]]

\* the body of read_mapping's loop for one file: open() raises
\* FileNotFoundError, which is caught and reported, or another OSError,
\* which is not
read_file(file_name, file) ==
    IF file.status = "unset"
    THEN [error |-> "", rows |-> <<>>, diagnostics |-> <<>>, opened |-> FALSE]
    ELSE IF file.status = "missing"
    THEN [error |-> "", rows |-> <<>>, opened |-> TRUE,
          diagnostics |-> <<[message |-> "file not found", about |-> file_name]>>]
    ELSE IF file.status = "unreadable"
    THEN [error |-> "PermissionError", rows |-> <<>>, diagnostics |-> <<>>, opened |-> TRUE]
    ELSE [error |-> "", rows |-> file.rows, diagnostics |-> <<>>, opened |-> TRUE]

read_mapping(files) ==
    LET strings == read_file("str_map_file", files.str_map_file)
        patterns == read_file("re_map_file", files.re_map_file)
    IN  IF strings.error # ""
        THEN [error |-> strings.error, string_map |-> EmptyMap, re_map |-> <<>>,
              diagnostics |-> strings.diagnostics,
              opened |-> [str_map_file |-> strings.opened, re_map_file |-> FALSE]]
        ELSE [error |-> patterns.error,
              string_map |-> dict(strings.rows),
              re_map |-> patterns.rows,
              diagnostics |-> strings.diagnostics \o patterns.diagnostics,
              opened |-> [str_map_file |-> strings.opened,
                          re_map_file |-> patterns.opened]]

Granularities == {"daily", "weekly", "monthly"}

\* a main that leaves the granularity to compute_sums
granularity_accepted_always(granularity) == TRUE

\* config["export_csv"] is None, or one of the three granularities
granularity_accepted(granularity) ==
    granularity.is_none \/ granularity.value \in Granularities

\* the rule files of the model: an exact table and a pattern list
StrMapRows == << <<fox, "Firefox">> >>
ReMapRows == << <<re_ox, "Browser">> >>

FileStatuses == {"ok", "missing", "unreadable"}

ExportChoices == {NoneStr, Str("daily"), Str("weekly"), Str("monthly"), Str("yearly")}

\* the rule files as main finds them, none opened yet
FilesFound(str_status, re_status) ==
    [str_map_file |-> [status |-> str_status, rows |-> StrMapRows, opened |-> FALSE],
     re_map_file |-> [status |-> re_status, rows |-> ReMapRows, opened |-> FALSE]]

\* main up to the loop of extract_and_map_data, called in a process that may
\* have run main before: the granularity is checked, the rule files are read,
\* the accumulators are created
Main(granularity, files, dflt, n) ==
    /\ pc \in {"start", "done"}
    /\ export_csv' = granularity
    /\ UNCHANGED <<cache, input, snap_vars>>
    /\ IF ~granularity_accepted(granularity)
       THEN /\ pc' = "SystemExit"
            /\ stderr' = <<[message |-> "unexpected option to export_csv",
                            about |-> granularity.value]>>
            /\ rule_files' = files
            /\ UNCHANGED <<string_map, re_map, default_category, last_call, csv>>
            /\ UNCHANGED <<num_days, app_cpu_load, app_cpu_res, app_num_cores_requested,
                           app_mem_requested, unmapped_cpu_load, unmapped_cpu_res,
                           unmapped_num_cores_requested, unmapped_mem_requested,
                           daily_cpu_load, dates, printed, n_lines, audit, offered>>
       ELSE LET m == read_mapping(files)
            IN  /\ rule_files' =
                      [f \in DOMAIN files |-> [files[f] EXCEPT !.opened = m.opened[f]]]
                /\ stderr' = m.diagnostics
                /\ string_map' = m.string_map
                /\ re_map' = m.re_map
                /\ default_category' = dflt
                /\ num_days' = n
                /\ last_call' = NoCall
                /\ pc' = IF m.error # "" THEN m.error ELSE "extract"
                /\ app_cpu_load' = <<>> /\ app_cpu_res' = <<>>
                /\ app_num_cores_requested' = <<>> /\ app_mem_requested' = <<>>
                /\ unmapped_cpu_load' = <<>> /\ unmapped_cpu_res' = <<>>
                /\ unmapped_num_cores_requested' = <<>>
                /\ unmapped_mem_requested' = <<>>
                /\ daily_cpu_load' = EmptyMap /\ dates' = {}
                /\ printed' = <<>> /\ csv' = NoCsv
                /\ n_lines' = 0 /\ audit' = NoAudit /\ offered' = {}

----------------------------------------------------------------------------
(* Claims about the classifier, checked under SpecClassify *)

\* C1 (cache-wins): in every step, each process name already in the cache
\* keeps its entry unchanged, and a call made with that name returns the
\* cached label, whatever rule tables and default category the call passes.
C1_CacheWins ==
    [][\A p \in DOMAIN cache :
          /\ p \in DOMAIN cache'
          /\ cache'[p] = cache[p]
          /\ (last_call'.process = p => last_call'.label = cache[p])]_vars

\* a call answered from the cache under tables that would give another label
C1_Witness ==
    /\ last_call.hit
    /\ map_process(last_call.process, string_map, re_map, default_category)
         # last_call.label

\* the pattern rules of the latest call that match its process name
Matching == {i \in 1..Len(re_map) : re_search(re_map[i][1], last_call.process)}

\* C2 (exact-match precedence): a call that missed the cache for a name that
\* is a key of the exact table returned the table's label, whatever the
\* pattern list holds.
C2_ExactMatchFirst ==
    (last_call # NoCall /\ ~last_call.hit /\ last_call.process \in DOMAIN string_map)
        => last_call.label = string_map[last_call.process]

\* a miss on an exact key that a pattern maps to another label
C2_Witness ==
    /\ last_call # NoCall /\ ~last_call.hit
    /\ last_call.process \in DOMAIN string_map
    /\ \E i \in Matching : re_map[i][2] # string_map[last_call.process]

\* C3 (first pattern wins): a call that missed the cache for a name outside
\* the exact table, matched by some pattern, returned the label of the
\* matching pattern with the smallest index.
C3_FirstPatternWins ==
    (last_call # NoCall /\ ~last_call.hit
        /\ last_call.process \notin DOMAIN string_map /\ Matching # {})
        => \E i \in Matching :
              /\ \A j \in Matching : i <= j
              /\ last_call.label = re_map[i][2]

\* a miss decided by a pattern that is listed again later with another label,
\* and followed by a different pattern that matches too
C3_Witness ==
    /\ last_call # NoCall /\ ~last_call.hit
    /\ last_call.process \notin DOMAIN string_map
    /\ \E i, j, k \in Matching :
          /\ i < j /\ i < k
          /\ re_map[j][1] = re_map[i][1] /\ re_map[j][2] # re_map[i][2]
          /\ re_map[k][1] # re_map[i][1] /\ re_map[k][2] # re_map[i][2]
          /\ last_call.label = re_map[i][2]

----------------------------------------------------------------------------
(* Claims about extract_and_map_data, checked under Spec *)

\* the sum of all values of the two cpu_load maps, and of the two cpu_res maps
LoadTotal == DictSum(app_cpu_load) + DictSum(unmapped_cpu_load)
ResTotal == DictSum(app_cpu_res) + DictSum(unmapped_cpu_res)

\* the sum of daily_cpu_load over all dates and labels
DailyTotal ==
    SumOver([d \in DOMAIN daily_cpu_load |->
                SumOver(daily_cpu_load[d], DOMAIN daily_cpu_load[d])],
            DOMAIN daily_cpu_load)

\* extract_and_map_data has not raised
Aggregating == pc \notin {"ValueError", "SystemExit"}

OldLineRead ==
    audit'.all_cores > audit.all_cores /\ audit'.win_cores = audit.win_cores

\* this step reads a well-formed line dated inside the window, and all its
\* fields convert
WindowLineRead ==
    audit'.win_cores > audit.win_cores /\ pc' = "extract"

NoRuleMatches(process) ==
    /\ process \notin DOMAIN string_map
    /\ \A i \in 1..Len(re_map) : ~re_search(re_map[i][1], process)

\* the load and the cores the line read in this step adds
LineLoad == audit'.win_load - audit.win_load
LineCores == audit'.win_cores - audit.win_cores

\* C6 (unmapped routing): a line inside the window whose process name no
\* rule matches updates the four unmapped maps under (process, user), for
\* the line's user, leaves the four mapped maps alone, so never touches
\* (default_category, user) there, and raises daily_cpu_load of its date
\* under default_category, not under the process name.
C6_UnmappedRouting ==
    [][(WindowLineRead /\ NoRuleMatches(last_call'.process)) =>
          /\ UNCHANGED <<app_cpu_load, app_cpu_res, app_num_cores_requested,
                         app_mem_requested>>
          /\ \A u \in Users : ~DictHas(app_cpu_res', <<default_category, u>>)
          /\ \E u \in Users :
                LET key == <<last_call'.process, u>>
                IN  /\ DictHas(unmapped_cpu_load', key)
                    /\ DictGet(unmapped_cpu_load', key)
                          = DictGetDefault(unmapped_cpu_load, key, 0) + LineLoad
                    /\ DictHas(unmapped_cpu_res', key)
                    /\ DictGet(unmapped_cpu_res', key)
                          = DictGetDefault(unmapped_cpu_res, key, 0) + LineCores
                    /\ DictHas(unmapped_num_cores_requested', key)
                    /\ DictHas(unmapped_mem_requested', key)
          /\ \E d \in dates' :
                LET before == IF d \in DOMAIN daily_cpu_load THEN daily_cpu_load[d]
                              ELSE EmptyMap
                    was == IF default_category \in DOMAIN before
                           THEN before[default_category] ELSE 0
                IN  /\ d \in DOMAIN daily_cpu_load'
                    /\ DOMAIN daily_cpu_load'[d] = DOMAIN before \cup {default_category}
                    /\ daily_cpu_load'[d][default_category] = was + LineLoad
                    /\ \A e \in DOMAIN daily_cpu_load : e # d =>
                          daily_cpu_load'[e] = daily_cpu_load[e]]_vars

\* an unmatched process sits in the unmapped maps under its own name, beside
\* a mapped application, and daily_cpu_load holds default_category
C6_Witness ==
    /\ \E i \in 1..Len(unmapped_cpu_res) :
          /\ NoRuleMatches(unmapped_cpu_res[i][1][1])
          /\ unmapped_cpu_res[i][1][1] # default_category
    /\ app_cpu_res # <<>>
    /\ \E d \in DOMAIN daily_cpu_load : default_category \in DOMAIN daily_cpu_load[d]

\* the values the lines read so far supplied for a key of a namespace
Supplied(unmapped, key, field) ==
    {t[4] : t \in {o \in offered : o[1] = unmapped /\ o[2] = key /\ o[3] = field}}

\* a range entry is the sentinel when nothing was supplied, and else spans
\* exactly the smallest and the largest value supplied
RangeTracks(range, supplied) ==
    IF supplied = {} THEN range = Sentinel
    ELSE /\ range[1] <= range[2]
         /\ range[1] \in supplied /\ \A v \in supplied : range[1] <= v
         /\ range[2] \in supplied /\ \A v \in supplied : v <= range[2]

\* C7 (range invariant): every entry of the four request-range maps is the
\* sentinel (sys.maxsize, -sys.maxsize) when no line of its key supplied the
\* field, and else min <= max, min and max being the smallest and the largest
\* value supplied for the key so far.
C7_RangeInvariant ==
    /\ \A i \in 1..Len(app_num_cores_requested) :
          RangeTracks(app_num_cores_requested[i][2],
                      Supplied(FALSE, app_num_cores_requested[i][1], "cores"))
    /\ \A i \in 1..Len(app_mem_requested) :
          RangeTracks(app_mem_requested[i][2],
                      Supplied(FALSE, app_mem_requested[i][1], "mem"))
    /\ \A i \in 1..Len(unmapped_num_cores_requested) :
          RangeTracks(unmapped_num_cores_requested[i][2],
                      Supplied(TRUE, unmapped_num_cores_requested[i][1], "cores"))
    /\ \A i \in 1..Len(unmapped_mem_requested) :
          RangeTracks(unmapped_mem_requested[i][2],
                      Supplied(TRUE, unmapped_mem_requested[i][1], "mem"))

\* one key was supplied two different requests, first the larger cores
\* request, and its ranges span both
C7_Witness ==
    \E i \in 1..Len(app_num_cores_requested) :
        /\ app_num_cores_requested[i][2] = <<1, 4>>
        /\ DictGet(app_mem_requested, app_num_cores_requested[i][1]) = <<500, 1000>>

----------------------------------------------------------------------------
(* Claims about output, checked under Spec *)

\* output has been called
Reported == pc \in {"done", "ZeroDivisionError"}

\* C9 (zero grand total is a defined case): when output is handed an
\* accumulator whose combined cpu-load total or reserved-core total is zero,
\* it completes instead of ending in a division-by-zero fault.
C9_ZeroTotalReported ==
    (Reported /\ (LoadTotal = 0 \/ ResTotal = 0)) => pc = "done"

\* the reserved-core total of an application (or unmapped process) of a map
ResOf(cpu_res, key) ==
    SumSeq([i \in 1..Len(cpu_res) |->
               IF cpu_res[i][1][1] = key THEN cpu_res[i][2] ELSE 0])

\* the application row of a key is among the rows printed for a section
RowPrinted(section, key) ==
    \E r \in 2..Len(printed) :
        printed[r].kind = "app" /\ printed[r].section = section /\ printed[r].key = key

\* in a section, a row is printed exactly for the keys whose share of the
\* combined reserved-core total is strictly above the cutoff printed in the
\* heading
StrictCutoff(section, cpu_res) ==
    \A i \in 1..Len(cpu_res) :
        LET key == cpu_res[i][1][1]
        IN  RowPrinted(section, key)
                <=> 100 * ResOf(cpu_res, key) > printed[1].cutoff * ResTotal

\* C10 (strict cutoff against the combined total): once output has been
\* called, an application or unmapped-process row is printed if and only if
\* 100 * its reserved-core total / (mapped + unmapped reserved total) is
\* strictly greater than percentage_cutoff.
C10_PrintedIffAboveCutoff ==
    Reported => StrictCutoff("app", app_cpu_res) /\ StrictCutoff("unmapped", unmapped_cpu_res)

\* C10 on the summaries output completes: the same, where no division by a
\* zero total ended output before the row was reached.
C10_CompletedSummaryStrict ==
    pc = "done" => StrictCutoff("app", app_cpu_res) /\ StrictCutoff("unmapped", unmapped_cpu_res)

\* a completed summary that left out an application exactly at the cutoff
C10_TieLeftOut ==
    /\ pc = "done"
    /\ \E i \in 1..Len(app_cpu_res) :
          /\ 100 * ResOf(app_cpu_res, app_cpu_res[i][1][1]) = printed[1].cutoff * ResTotal
          /\ ~RowPrinted("app", app_cpu_res[i][1][1])

----------------------------------------------------------------------------
(* Runs of main, one after the other in the same process: SpecMain *)

\* the lines of the input files of these runs
MainLines ==
    { Line(<<2020, 1, 1>>, <<"2">>, "alice", fox, <<"5", "0">>, NoJob),
      Line(<<2020, 1, 1>>, <<"2">>, "alice", sh, <<"5", "0">>, NoJob) }

\* the interpreter has imported sonar.map; main has not been called
InitMain ==
    /\ cache = EmptyMap
    /\ last_call = NoCall
    /\ string_map = EmptyMap /\ re_map = <<>>
    /\ default_category = "UNKNOWN"
    /\ num_days = 0
    /\ pc = "start"
    /\ NoData /\ NoMain /\ NoSnap

NextMain ==
    \/ \E granularity \in ExportChoices, str_status \in FileStatuses,
          re_status \in FileStatuses, dflt \in DefaultCategories :
            Main(granularity, FilesFound(str_status, re_status), dflt, 1)
    \/ \E line \in MainLines : ReadLine(line)
    \/ Output(0)
    \/ ExportCsv

SpecMain == InitMain /\ [][NextMain]_vars

\* C11 (unknown granularity is rejected first): a call of main with
\* export_csv set to something other than daily, weekly or monthly ends in
\* SystemExit with no rule file opened, no line read or classified, and the
\* classification cache, the rule tables and every accumulator as they were.
C11_UnknownGranularityRejectedFirst ==
    [][(/\ pc \in {"start", "done"}
        /\ ~export_csv'.is_none
        /\ export_csv'.value \notin {"daily", "weekly", "monthly"})
        => /\ pc' = "SystemExit"
           /\ ~rule_files'.str_map_file.opened
           /\ ~rule_files'.re_map_file.opened
           /\ UNCHANGED <<cache, last_call, string_map, re_map, n_lines, dates,
                          daily_cpu_load, app_cpu_load, app_cpu_res,
                          app_num_cores_requested, app_mem_requested,
                          unmapped_cpu_load, unmapped_cpu_res,
                          unmapped_num_cores_requested, unmapped_mem_requested>>]_vars

\* a call with an unknown granularity was rejected in a process whose cache
\* an earlier run had filled, with both rule files present and unopened
C11_Witness ==
    /\ pc = "SystemExit"
    /\ ~export_csv.is_none /\ export_csv.value = "yearly"
    /\ cache # EmptyMap
    /\ rule_files.str_map_file.status = "ok" /\ ~rule_files.str_map_file.opened
    /\ rule_files.re_map_file.status = "ok" /\ ~rule_files.re_map_file.opened

\* C14 (no classification state survives a run): every classification a run
\* makes is the one its own rule tables and its own default category give,
\* also when an earlier run of the same process was given other rules or
\* another default category.
C14_ClassifiedFromOwnRules ==
    last_call # NoCall
        => last_call.label
             = map_process(last_call.process, string_map, re_map, default_category)

\* C16 (a missing or unreadable rule file is non-fatal, per source): once
\* read_mapping has run, a rule file that is missing or cannot be read has
\* not ended the run, has been reported on stderr, has left its own table
\* empty, and the other file, when it is there, has been read in full.
C16_RuleFileFailureNonFatal ==
    (pc # "start" /\ granularity_accepted(export_csv)) =>
        /\ rule_files.str_map_file.status \in {"missing", "unreadable"} =>
              /\ pc # "PermissionError"
              /\ \E i \in 1..Len(stderr) : stderr[i].about = "str_map_file"
              /\ string_map = EmptyMap
              /\ rule_files.re_map_file.status = "ok" => re_map = ReMapRows
        /\ rule_files.re_map_file.status \in {"missing", "unreadable"} =>
              /\ pc # "PermissionError"
              /\ \E i \in 1..Len(stderr) : stderr[i].about = "re_map_file"
              /\ re_map = <<>>
              /\ rule_files.str_map_file.status = "ok" => string_map = dict(StrMapRows)

\* C16 for a missing file alone: FileNotFoundError is caught, reported, and
\* the other file is still read in full
C16_MissingFileNonFatal ==
    (pc # "start" /\ granularity_accepted(export_csv)) =>
        /\ rule_files.str_map_file.status = "missing" =>
              /\ \E i \in 1..Len(stderr) : stderr[i].about = "str_map_file"
              /\ string_map = EmptyMap
              /\ rule_files.re_map_file.status = "ok" =>
                    (re_map = ReMapRows /\ pc # "PermissionError")
        /\ (rule_files.re_map_file.status = "missing"
               /\ rule_files.str_map_file.status # "unreadable") =>
              /\ pc # "PermissionError"
              /\ \E i \in 1..Len(stderr) : stderr[i].about = "re_map_file"
              /\ re_map = <<>>
              /\ rule_files.str_map_file.status = "ok" => string_map = dict(StrMapRows)

----------------------------------------------------------------------------
(* One run of main over given input files, ended by either report:         *)
(* SpecReport                                                               *)

\* ten process names with an exact rule each, and one without
AppProcesses ==
    <<"python", "R", "matlab", "gromacs", "vasp", "lammps", "namd", "cp2k",
      "orca", "julia">>

AppLabels ==
    <<"Python", "RStudio", "Matlab", "Gromacs", "Vasp", "Lammps", "Namd",
      "Cp2k", "Orca", "Julia">>

ReportStringMap ==
    [q \in {AppProcesses[i] : i \in 1..10} |->
        AppLabels[CHOOSE i \in 1..10 : AppProcesses[i] = q]]

\* a line outside a job, on a node with the given number of cores
Sample(date, cores, user, process, cpu) == Line(date, cores, user, process, cpu, NoJob)

\* four days around the turn of the year: ISO week 1 of 2019, and three days
\* of ISO week 1 of 2020, two of them in December 2019
FileTurnOfYear ==
    << Sample(<<2019, 1, 2>>, <<"2">>, "alice", "python", <<"5", "0">>),
       Sample(<<2019, 12, 30>>, <<"2">>, "alice", "R", <<"5", "0">>),
       Sample(<<2019, 12, 31>>, <<"2">>, "bob", "python", <<"5", "0">>),
       Sample(<<2020, 1, 1>>, <<"2">>, "alice", "zsh", <<"5", "0">>) >>

\* one day, three labels with loads 4 : 1 : 1
FileThirds ==
    << Sample(<<2020, 1, 1>>, <<"2">>, "alice", "python", <<"4">>),
       Sample(<<2020, 1, 1>>, <<"2">>, "alice", "R", <<"1">>),
       Sample(<<2020, 1, 1>>, <<"2">>, "alice", "zsh", <<"1">>) >>

\* one day, ten applications: eight busy ones, a small one and a tiny one
FileTenApps ==
    [i \in 1..10 |->
        Sample(<<2020, 1, 1>>, <<"2">>, "alice", AppProcesses[i],
               IF i <= 8 THEN <<"2", "7", "7">>
               ELSE IF i = 9 THEN <<"2", "5">> ELSE <<"1">>)]

\* three users of one application on nodes of 2, 4 and 8 cores, a second
\* application with the same reserved total, a third with more, and an
\* unmapped process
FileRanking ==
    << Sample(<<2020, 1, 1>>, <<"2">>, "alice", "python", <<"5", "0">>),
       Sample(<<2020, 1, 1>>, <<"4">>, "bob", "python", <<"5", "0">>),
       Sample(<<2020, 1, 1>>, <<"8">>, "carol", "python", <<"5", "0">>),
       Sample(<<2019, 12, 31>>, <<"1", "4">>, "alice", "R", <<"5", "0">>),
       Sample(<<2019, 12, 31>>, <<"1", "6">>, "bob", "matlab", <<"0">>),
       Sample(<<2020, 1, 1>>, <<"2">>, "alice", "zsh", <<"5", "0">>),
       Sample(<<2020, 1, 1>>, <<"2">>, "bob", "zsh", <<"5", "0">>) >>

ReportInputs == {FileTurnOfYear, FileThirds, FileTenApps, FileRanking}

ReportNumDays == {1, 400}

\* the next line of the input files
ReadInput ==
    /\ n_lines < Len(input)
    /\ loop_body(input[n_lines + 1])

\* main has checked the granularity and read the rule files
InitReport ==
    /\ cache = EmptyMap
    /\ last_call = NoCall
    /\ string_map = ReportStringMap /\ re_map = <<>>
    /\ default_category = "UNKNOWN"
    /\ num_days \in ReportNumDays
    /\ pc = "extract"
    /\ NoData /\ NoSnap
    /\ export_csv \in {NoneStr, Str("daily"), Str("weekly"), Str("monthly")}
    /\ rule_files = [str_map_file |-> NoFile, re_map_file |-> NoFile]
    /\ stderr = <<>> /\ csv = NoCsv
    /\ input \in ReportInputs

NextReport ==
    \/ ReadInput
    \/ \E percentage_cutoff \in Cutoffs : Output(percentage_cutoff)
    \/ ExportCsv

SpecReport == InitReport /\ [][NextReport]_vars

----------------------------------------------------------------------------
(* Claims about compute_sums, checked under SpecReport *)

\* the ISO year and ISO week number of the dates of the model, from the
\* calendar
IsoWeek ==
    [d \in AllDates |->
        CASE d = <<2019, 1, 2>> -> <<2019, 1>>
          [] d = <<2019, 12, 30>> -> <<2020, 1>>
          [] d = <<2019, 12, 31>> -> <<2020, 1>>
          [] d = <<2020, 1, 1>> -> <<2020, 1>>]

\* compute_sums and _csv_report have completed
Exported == pc = "done" /\ ~export_csv.is_none

\* the key of the bucket compute_sums has put a date in
BucketOf(d) == bucket_key(export_csv.value, d).value

\* C12 (weekly bucket key uses the ISO year): after a weekly export, two
\* dates of the input were summed into the same bucket if and only if they
\* have the same ISO year and the same ISO week number, so there is one row
\* per ISO week, and a date at the end of December that belongs to ISO week 1
\* of the next year is not merged with the first week of its own year.
C12_WeeklyBucketIsIsoWeek ==
    (Exported /\ export_csv.value = "weekly") =>
        /\ \A d1, d2 \in dates :
              (BucketOf(d1) = BucketOf(d2)) <=> (IsoWeek[d1] = IsoWeek[d2])
        /\ Len(csv.rows) = Cardinality({IsoWeek[d] : d \in dates})

\* the dates of a bucket, its total load, and the load of one label in it
Members(key) == {d \in dates : BucketOf(d) = key}

BucketTotal(key) ==
    SumOver([d \in Members(key) |-> SumOver(daily_cpu_load[d], DOMAIN daily_cpu_load[d])],
            Members(key))

LabelLoad(key, label) ==
    SumOver([d \in Members(key) |->
                IF label \in DOMAIN daily_cpu_load[d] THEN daily_cpu_load[d][label] ELSE 0],
            Members(key))

ColumnsLoad(key) ==
    SumSeq([n \in 1..Len(csv.columns) |-> LabelLoad(key, csv.columns[n])])

\* a label that is no column has positive load on a date of the bucket
OutsideLoad(key) ==
    \E d \in Members(key) :
        \E a \in DOMAIN daily_cpu_load[d] :
            /\ \A n \in 1..Len(csv.columns) : csv.columns[n] # a
            /\ daily_cpu_load[d][a] > 0

Rollup == Exported /\ export_csv.value \in {"weekly", "monthly"}

\* C13 as claimed (rollup column sums are bounded by the bucket total): in
\* every weekly or monthly bucket the reported column percentages sum to at
\* most 100%, and to strictly less when a label outside the columns has
\* load in the bucket.
C13_ReportedSumsBounded ==
    Rollup =>
        \A k \in 1..Len(csv.rows) :
            /\ SumSeq(csv.rows[k][2]) <= 10000
            /\ OutsideLoad(csv.rows[k][1]) => SumSeq(csv.rows[k][2]) < 10000

\* C13 as amended: every reported percentage is the share of its column in
\* the bucket total rounded to two decimals, so within 0.005 of it; the
\* shares themselves sum to at most 100%, and to strictly less when a label
\* outside the columns has load in the bucket.
C13_SharesBounded ==
    Rollup =>
        \A k \in 1..Len(csv.rows) :
            LET key == csv.rows[k][1]
                total == BucketTotal(key)
            IN  /\ Len(csv.rows[k][2]) = Len(csv.columns)
                /\ \A n \in 1..Len(csv.columns) :
                      LET off == csv.rows[k][2][n] * total
                                    - 10000 * LabelLoad(key, csv.columns[n])
                      IN  2 * off <= total /\ -2 * off <= total
                /\ ColumnsLoad(key) <= total
                /\ OutsideLoad(key) => ColumnsLoad(key) < total

\* a bucket in which an application outside the columns has load, and whose
\* reported percentages still sum to 100.00
C13_Witness ==
    /\ Rollup
    /\ \E k \in 1..Len(csv.rows) :
          /\ OutsideLoad(csv.rows[k][1])
          /\ SumSeq(csv.rows[k][2]) >= 10000

\* a bucket whose reported percentages sum to more than 100.00
C13_AboveHundred ==
    /\ Rollup
    /\ \E k \in 1..Len(csv.rows) : SumSeq(csv.rows[k][2]) > 10000

\* the mapped applications of the accumulator, and the total load of one
MappedApps == {app_cpu_load[i][1][1] : i \in 1..Len(app_cpu_load)}

LoadOf(app) ==
    SumSeq([i \in 1..Len(app_cpu_load) |->
               IF app_cpu_load[i][1][1] = app THEN app_cpu_load[i][2] ELSE 0])

\* C15 as claimed (the calendar rollup always has 10 columns): compute_sums
\* returns exactly 10 distinct labels, default_category the 10th, and every
\* row has 10 values, also when fewer than 9 applications were seen.
C15_AlwaysTenColumns ==
    Exported =>
        /\ Len(csv.columns) = 10
        /\ \A m, n \in 1..Len(csv.columns) : csv.columns[m] = csv.columns[n] => m = n
        /\ csv.columns[Len(csv.columns)] = default_category
        /\ \A k \in 1..Len(csv.rows) : Len(csv.rows[k][2]) = 10

\* C15 as amended: compute_sums returns min(9, number of mapped
\* applications) + 1 distinct labels: the applications with the largest
\* total cpu_load, at most 9 of them, in non-increasing order of it, then
\* default_category; every row has one value per column.
C15_TopAppsThenDefault ==
    Exported =>
        LET width == Len(csv.columns)
        IN  /\ width = Min(9, Cardinality(MappedApps)) + 1
            /\ \A m, n \in 1..width : csv.columns[m] = csv.columns[n] => m = n
            /\ csv.columns[width] = default_category
            /\ \A n \in 1..(width - 1) :
                  /\ csv.columns[n] \in MappedApps
                  /\ n > 1 => LoadOf(csv.columns[n - 1]) >= LoadOf(csv.columns[n])
                  /\ \A a \in MappedApps :
                        (\A m \in 1..(width - 1) : csv.columns[m] # a)
                            => LoadOf(a) <= LoadOf(csv.columns[n])
            /\ \A k \in 1..Len(csv.rows) : Len(csv.rows[k][2]) = width

\* an export of an accumulator with two or three mapped applications: three
\* or four columns, and rows of that width
C15_Witness ==
    /\ Exported
    /\ Cardinality(MappedApps) \in {2, 3}
    /\ Len(csv.columns) = Cardinality(MappedApps) + 1
    /\ csv.rows # <<>>
    /\ Len(csv.rows[1][2]) = Len(csv.columns)

----------------------------------------------------------------------------
(* Claims about the reporter as a whole, checked under SpecReport *)

\* this step is a call of output or of compute_sums
ReporterStep == pc = "extract" /\ n_lines' = n_lines /\ pc' # pc

\* C18 (the reporter leaves the accumulator unchanged): a call of output or
\* of compute_sums, for any granularity, leaves every map of the
\* accumulator as it was, the key set of daily_cpu_load[date] of every date
\* included.
C18_ReporterReadOnly ==
    [][ReporterStep =>
          UNCHANGED <<app_cpu_load, app_cpu_res, app_num_cores_requested,
                      app_mem_requested, unmapped_cpu_load, unmapped_cpu_res,
                      unmapped_num_cores_requested, unmapped_mem_requested,
                      daily_cpu_load, dates>>]_vars

\* C18 for output alone: the keys _output_section reads are keys the maps hold
C18_OutputReadOnly ==
    [][(ReporterStep /\ export_csv.is_none) =>
          UNCHANGED <<app_cpu_load, app_cpu_res, app_num_cores_requested,
                      app_mem_requested, unmapped_cpu_load, unmapped_cpu_res,
                      unmapped_num_cores_requested, unmapped_mem_requested,
                      daily_cpu_load, dates>>]_vars

\* the place of an application in the iteration order of a map
FirstIndex(cpu_res, key) ==
    CHOOSE i \in 1..Len(cpu_res) :
        /\ cpu_res[i][1][1] = key
        /\ \A j \in 1..Len(cpu_res) : cpu_res[j][1][1] = key => i <= j

\* the users of an application in a map
UsersOf(cpu_res, key) ==
    {cpu_res[i][1][2] : i \in {j \in 1..Len(cpu_res) : cpu_res[j][1][1] = key}}

\* the rows printed for a section are ranked: application rows in
\* non-increasing order of their reserved total, equal totals in the order of
\* the map, and each followed by min(2, number of users) user rows, for its
\* users with the largest reserved totals, largest first
Ranked(section, cpu_res) ==
    LET app_rows == {i \in 1..Len(printed) :
                        printed[i].kind = "app" /\ printed[i].section = section}
    IN  /\ \A i, j \in app_rows :
              i < j =>
                /\ ResOf(cpu_res, printed[i].key) >= ResOf(cpu_res, printed[j].key)
                /\ ResOf(cpu_res, printed[i].key) = ResOf(cpu_res, printed[j].key)
                      => FirstIndex(cpu_res, printed[i].key)
                            < FirstIndex(cpu_res, printed[j].key)
        /\ \A i \in app_rows :
              LET key == printed[i].key
                  users == UsersOf(cpu_res, key)
                  shown == Min(2, Cardinality(users))
                  res(u) == DictGet(cpu_res, <<key, u>>)
              IN  /\ i + shown <= Len(printed)
                  /\ \A r \in (i + 1)..(i + shown) :
                        /\ printed[r].kind = "user"
                        /\ printed[r].section = section
                        /\ printed[r].key = key
                        /\ printed[r].user \in users
                        /\ printed[r].res = res(printed[r].user)
                        /\ r > i + 1 =>
                              /\ printed[r].user # printed[r - 1].user
                              /\ res(printed[r - 1].user) >= res(printed[r].user)
                        /\ \A u \in users :
                              (\A q \in (i + 1)..(i + shown) : printed[q].user # u)
                                  => res(u) <= res(printed[r].user)
                  /\ i + shown < Len(printed) => printed[i + shown + 1].kind # "user"

\* C19 (ranked summary order and top-2 users): in both sections of the
\* summary, application rows come in non-increasing order of their
\* reserved-core total, equal totals in accumulator order, and under each
\* printed application come min(2, number of its users) user rows, the users
\* with the largest reserved-core totals, largest first.
C19_RankedSummary ==
    Ranked("app", app_cpu_res) /\ Ranked("unmapped", unmapped_cpu_res)

\* a summary of three applications, two of them with equal reserved totals,
\* the first of them with three users of whom the two largest are shown
C19_Witness ==
    /\ pc = "done"
    /\ \E i \in 2..Len(printed) :
          /\ i + 3 <= Len(printed)
          /\ printed[i].kind = "app" /\ printed[i].section = "app"
          /\ Cardinality(UsersOf(app_cpu_res, printed[i].key)) = 3
          /\ printed[i + 1].kind = "user" /\ printed[i + 2].kind = "user"
          /\ printed[i + 1].res > printed[i + 2].res
          /\ printed[i + 3].kind = "app"
          /\ ResOf(app_cpu_res, printed[i + 3].key) = ResOf(app_cpu_res, printed[i].key)
          /\ \E h \in 2..(i - 1) :
                /\ printed[h].kind = "app"
                /\ ResOf(app_cpu_res, printed[h].key) > ResOf(app_cpu_res, printed[i].key)

----------------------------------------------------------------------------
(* Consistency of the two namespaces, checked under Spec *)

MappedMaps ==
    <<app_cpu_load, app_cpu_res, app_num_cores_requested, app_mem_requested>>

UnmappedMaps ==
    <<unmapped_cpu_load, unmapped_cpu_res, unmapped_num_cores_requested,
      unmapped_mem_requested>>

\* C20 (namespace consistency): in every state of a run that no line has
\* ended, the four maps of a namespace have the same keys, no key of the
\* mapped namespace has default_category as its application, and the cpu_res
\* values of both namespaces sum to the cores of the lines processed; and
\* every line that is processed updates exactly one of the two namespaces.
C20_NamespacesConsistent ==
    /\ [](Aggregating =>
            /\ DictKeys(app_cpu_load) = DictKeys(app_cpu_res)
            /\ DictKeys(app_cpu_load) = DictKeys(app_num_cores_requested)
            /\ DictKeys(app_cpu_load) = DictKeys(app_mem_requested)
            /\ DictKeys(unmapped_cpu_load) = DictKeys(unmapped_cpu_res)
            /\ DictKeys(unmapped_cpu_load) = DictKeys(unmapped_num_cores_requested)
            /\ DictKeys(unmapped_cpu_load) = DictKeys(unmapped_mem_requested)
            /\ \A i \in 1..Len(app_cpu_res) : app_cpu_res[i][1][1] # default_category
            /\ ResTotal = audit.win_cores)
    /\ [][WindowLineRead =>
            \/ MappedMaps' = MappedMaps /\ unmapped_cpu_res' # unmapped_cpu_res
            \/ UnmappedMaps' = UnmappedMaps /\ app_cpu_res' # app_cpu_res]_vars

\* two lines have been processed, one into each namespace
C20_Witness ==
    /\ pc = "extract"
    /\ n_lines = 2
    /\ Len(app_cpu_res) = 1 /\ Len(unmapped_cpu_res) = 1
    /\ ResTotal = 4


----------------------------------------------------------------------------
(* extract_processes of snap.py and of ps.py.  A text is a sequence of     *)
(* tokens: words, runs of blanks, and newlines.  A word is a sequence of   *)
(* strings; a numeric field is spelled digit by digit.  Percentages are    *)
(* counted in tenths.                                                      *)

Word(text) == [ws |-> FALSE, text |-> text]
Gap == [ws |-> TRUE, text |-> <<" ">>]
NL == [ws |-> TRUE, text |-> <<"\n">>]

\* raw_text.split("\n"): the pieces between the newlines, the last one too
RECURSIVE split_nl(_, _)
split_nl(text, current) ==
    IF text = <<>> THEN <<current>>
    ELSE IF Head(text) = NL THEN <<current>> \o split_nl(Tail(text), <<>>)
    ELSE split_nl(Tail(text), Append(current, Head(text)))

\* raw_text.splitlines(): as split("\n"), without the empty piece after a
\* final newline, and no piece at all for the empty text
splitlines(text) ==
    LET pieces == split_nl(text, <<>>)
    IN  IF pieces[Len(pieces)] = <<>> THEN SubSeq(pieces, 1, Len(pieces) - 1)
        ELSE pieces

\* the characters of a piece of a line, blanks included
RECURSIVE join_tokens(_)
join_tokens(tokens) ==
    IF tokens = <<>> THEN <<>> ELSE Head(tokens).text \o join_tokens(Tail(tokens))

\* line.split(maxsplit=...): blanks before a word are dropped; after maxsplit
\* words the rest of the line is one word, its inner and trailing blanks kept
RECURSIVE split(_, _)
split(line, maxsplit) ==
    IF line = <<>> THEN <<>>
    ELSE IF Head(line).ws THEN split(Tail(line), maxsplit)
    ELSE IF maxsplit = 0 THEN <<join_tokens(line)>>
    ELSE <<Head(line).text>> \o split(Tail(line), maxsplit - 1)

\* float(s), in tenths, on a whole number and on a number with one decimal
\* (ps prints pcpu and pmem with one); a field that is no number raises
\* ValueError.  The texts of the model hold no number with more decimals.
float_tenths(s) ==
    IF IsNumeral(s) THEN Ok(10 * digits_value(s, 0))
    ELSE IF Len(s) >= 3 /\ s[Len(s) - 1] = "." /\ IsNumeral(SubSeq(s, 1, Len(s) - 2)) /\ IsNumeral(<<s[Len(s)]>>)
    THEN Ok(10 * digits_value(SubSeq(s, 1, Len(s) - 2), 0) + DigitValue[s[Len(s)]])
    ELSE Raise("ValueError")

\* user in ignored_users
in_list(x, list) == \E i \in 1..Len(list) : list[i] = x

\* cpu_percentages[(user, command)] += float(cpu_percentage), and the same
\* for the memory; float raising ends the call
add_percentages(user, cpu, mem, command, acc) ==
    IF cpu.error # "" THEN [acc EXCEPT !.error = cpu.error]
    ELSE IF mem.error # "" THEN [acc EXCEPT !.error = mem.error]
    ELSE [acc EXCEPT
            !.cpu_percentages = DictPut(@, <<user, command>>, DictGetDefault(@, <<user, command>>, 0) + cpu.value),
            !.mem_percentages = DictPut(@, <<user, command>>, DictGetDefault(@, <<user, command>>, 0) + mem.value)]

\* snap.py, the body of the loop: a line of other than five words is passed
\* over, and so is a line of an ignored user
snap_line_keeps_ignored(words, ignored) == Len(words) = 5

snap_line(words, ignored) == Len(words) = 5 /\ ~in_list(words[2], ignored)

snap_body(words, ignored, acc) ==
    IF snap_line(words, ignored)
    THEN add_percentages(words[2], float_tenths(words[3]), float_tenths(words[4]), words[5], acc)
    ELSE acc

RECURSIVE snap_loop(_, _, _)
snap_loop(lines, ignored, acc) ==
    IF lines = <<>> \/ acc.error # "" THEN acc
    ELSE snap_loop(Tail(lines), ignored, snap_body(split(Head(lines), 4), ignored, acc))

\* what a call returns; an exception leaves no maps to the caller
returned(by, acc) ==
    IF acc.error = "" THEN [acc EXCEPT !.by = by]
    ELSE [by |-> by, error |-> acc.error, cpu_percentages |-> <<>>, mem_percentages |-> <<>>]

\* snap.py: extract_processes(raw_text, ignored_users)
extract_processes(text, ignored) ==
    returned("snap", snap_loop(split_nl(text, <<>>), ignored, NoProcesses))

\* ps.py, the body of the loop: the five names are unpacked from the words
\* whatever their number, which raises ValueError for any other number
ps_body(words, acc) ==
    IF Len(words) # 5 THEN [acc EXCEPT !.error = "ValueError"]
    ELSE add_percentages(words[2], float_tenths(words[3]), float_tenths(words[4]), words[5], acc)

RECURSIVE ps_loop(_, _)
ps_loop(lines, acc) ==
    IF lines = <<>> \/ acc.error # "" THEN acc
    ELSE ps_loop(Tail(lines), ps_body(split(Head(lines), 4), acc))

\* ps.py: extract_processes(raw_text)
ps_extract_processes(text) ==
    returned("ps", ps_loop(splitlines(text), NoProcesses))

----------------------------------------------------------------------------
(* SpecSnap: one call of extract_processes on a text of a few lines        *)

MaxPsLines == 3

bob == <<"bob">>
alice == <<"alice">>
ten == <<"1", "0", ".", "0">>
five == <<"5", ".", "0">>
half == <<"0", ".", "5">>

\* a line as ps prints it: the columns right-aligned, so blanks come first
Columns(pid, user, cpu, mem) ==
    <<Gap, Word(<<pid>>), Gap, Word(user), Gap, Word(cpu), Gap, Word(mem)>>

BobSlack == Columns("2011", bob, ten, five) \o <<Gap, Word(<<"slack">>)>>
BobSlackAgain == Columns("12057", bob, half, ten) \o <<Gap, Word(<<"slack">>)>>
AliceSlack == Columns("2084", alice, ten, five) \o <<Gap, Word(<<"slack">>)>>
\* a command of two words
AliceWeb == Columns("2090", alice, five, five) \o <<Gap, Word(<<"Web">>), Gap, Word(<<"Content">>)>>
\* a line of blanks, and a line whose command is missing
Blank == <<Gap>>
NoCommand == Columns("2087", bob, ten, five) \o <<Gap>>

PsLines == {BobSlack, BobSlackAgain, AliceSlack, AliceWeb, Blank, NoCommand}

RECURSIVE Text(_)
Text(lines) ==
    IF lines = <<>> THEN <<>> ELSE Head(lines) \o <<NL>> \o Text(Tail(lines))

\* texts of up to MaxPsLines lines, with and without the final newline
Texts ==
    LET ended == {Text(ls) : ls \in UNION {[1..n -> PsLines] : n \in 0..MaxPsLines}}
    IN  ended \cup {SubSeq(t, 1, Len(t) - 1) : t \in ended \ {<<>>}}

IgnoredLists == {<<>>, <<bob>>, <<alice, bob>>}

InitSnap ==
    /\ cache = EmptyMap
    /\ last_call = NoCall
    /\ string_map = EmptyMap /\ re_map = <<>>
    /\ default_category = "UNKNOWN"
    /\ num_days = 1
    /\ pc = "snap"
    /\ NoData /\ NoMain
    /\ raw_text \in Texts
    /\ ignored_users \in IgnoredLists
    /\ processes = NoProcesses

SnapExtract ==
    /\ processes.by = ""
    /\ processes' = extract_processes(raw_text, ignored_users)
    /\ UNCHANGED <<classifier_vars, run_vars, main_vars, raw_text, ignored_users>>

PsExtract ==
    /\ processes.by = ""
    /\ processes' = ps_extract_processes(raw_text)
    /\ UNCHANGED <<classifier_vars, run_vars, main_vars, raw_text, ignored_users>>

NextSnap == SnapExtract \/ PsExtract

SpecSnap == InitSnap /\ [][NextSnap]_vars

----------------------------------------------------------------------------
(* What a text holds, told from the text itself and not by splitting it    *)

\* the non-empty lines of raw_text, as the positions of their first and last
\* token
Pieces ==
    {p \in (1..Len(raw_text)) \X (1..Len(raw_text)) :
        /\ p[1] <= p[2]
        /\ \A i \in p[1]..p[2] : raw_text[i] # NL
        /\ p[1] = 1 \/ raw_text[p[1] - 1] = NL
        /\ p[2] = Len(raw_text) \/ raw_text[p[2] + 1] = NL}

LineAt(p) == SubSeq(raw_text, p[1], p[2])

\* the lines that hold the five columns
WellFormed == {BobSlack, BobSlackAgain, AliceSlack, AliceWeb}

\* user, command and percentages (in tenths) of a well-formed line
Fact(line) ==
    CASE line = BobSlack -> [user |-> bob, command |-> <<"slack">>, cpu |-> 100, mem |-> 50]
      [] line = BobSlackAgain -> [user |-> bob, command |-> <<"slack">>, cpu |-> 5, mem |-> 100]
      [] line = AliceSlack -> [user |-> alice, command |-> <<"slack">>, cpu |-> 100, mem |-> 50]
      [] line = AliceWeb -> [user |-> alice, command |-> <<"Web", " ", "Content">>, cpu |-> 50, mem |-> 50]

Ignored(ignored) == {ignored[i] : i \in 1..Len(ignored)}

\* the well-formed lines of raw_text whose user is not among the ignored
Contributing(ignored) ==
    {p \in Pieces : LineAt(p) \in WellFormed /\ Fact(LineAt(p)).user \notin Ignored(ignored)}

KeyOf(p) == <<Fact(LineAt(p)).user, Fact(LineAt(p)).command>>

\* cpu_percentages and mem_percentages are the sums, per (user, command), of
\* the two columns over the contributing lines, and have no other key
SumsOf(result, lines) ==
    /\ result.error = ""
    /\ {result.cpu_percentages[i][1] : i \in 1..Len(result.cpu_percentages)} = {KeyOf(p) : p \in lines}
    /\ {result.mem_percentages[i][1] : i \in 1..Len(result.mem_percentages)} = {KeyOf(p) : p \in lines}
    /\ Len(result.cpu_percentages) = Cardinality({KeyOf(p) : p \in lines})
    /\ Len(result.mem_percentages) = Cardinality({KeyOf(p) : p \in lines})
    /\ \A q \in lines :
        /\ DictGet(result.cpu_percentages, KeyOf(q)) = SumOver([p \in lines |-> Fact(LineAt(p)).cpu], {p \in lines : KeyOf(p) = KeyOf(q)})
        /\ DictGet(result.mem_percentages, KeyOf(q)) = SumOver([p \in lines |-> Fact(LineAt(p)).mem], {p \in lines : KeyOf(p) = KeyOf(q)})

\* C17 (snapshot extraction sums per (user, command)): for every text and
\* every list of ignored users, extract_processes of snap.py returns cpu and
\* memory maps whose keys are exactly the (user, command) pairs of the
\* well-formed lines whose user is not ignored, each with the sum of its
\* column over the lines of that user and command; no key has an ignored
\* user.
C17_SumsPerUserCommand ==
    processes.by = "snap" =>
        /\ SumsOf(processes, Contributing(ignored_users))
        /\ \A i \in 1..Len(processes.cpu_percentages) : processes.cpu_percentages[i][1][1] \notin Ignored(ignored_users)
        /\ \A i \in 1..Len(processes.mem_percentages) : processes.mem_percentages[i][1][1] \notin Ignored(ignored_users)

\* bob is ignored and has a line in the text; two lines of alice's slack
\* have been summed
C17_Witness ==
    /\ processes.by = "snap"
    /\ ignored_users = <<bob>>
    /\ \E p \in Pieces : LineAt(p) = BobSlack
    /\ processes.cpu_percentages = << <<<<alice, <<"slack">>>>, 200>> >>
    /\ processes.mem_percentages = << <<<<alice, <<"slack">>>>, 100>> >>

\* extract_processes of ps.py, which takes no list of ignored users: it
\* raises ValueError exactly when the text has a line that is not
\* well-formed, and returns the sums over all lines otherwise
C17_PsSumsOrValueError ==
    processes.by = "ps" =>
        IF \A p \in Pieces : LineAt(p) \in WellFormed
        THEN SumsOf(processes, Contributing(<<>>))
        ELSE processes.error = "ValueError"

\* ps.py met a line of blanks
C17_PsValueError ==
    /\ processes.by = "ps"
    /\ processes.error = "ValueError"
    /\ \E p \in Pieces : LineAt(p) = Blank

====
